---------------------------- MODULE Spec2Model ----------------------------
(***************************************************************************)
(* salon-reviews: the Express proxy (src/server/reviews.js) and the        *)
(* multi-platform Canva panel (src/src/app.tsx).                           *)
(*                                                                         *)
(* SpecProxy  the two POST routes of the proxy, MaxReq requests in flight  *)
(* Spec       the panel as a React component: state, handlers, the awaits  *)
(*            of each async handler as separate steps                      *)
(* SpecForm   the panel, with more of what can be typed into its form      *)
(* SpecList   the panel, with several reviews to sort, filter and insert   *)
(* FairSpec   the panel, every pending await answered in the end           *)
(***************************************************************************)
EXTENDS Integers, Sequences, FiniteSets, TLC

(***************************************************************************)
(* State.  reqs: the requests the proxy is handling.  Then the panel: one  *)
(* variable per React state variable (app.tsx 90-104), and what lives      *)
(* outside React: the credential store of the host, the mount effect, the  *)
(* fetches whose await is pending and the timers of handleViewTransition.  *)
(***************************************************************************)
VARIABLES reqs

proxyVars == <<reqs>>

VARIABLES platform, businessId, email, password, rememberMe, branches, branchId,
          reviews, loading, error, showSettings, transitioning, hasFetchedReviews,
          store, mount, tasks, timers

\* the sort order and the rating filter of the review list (app.tsx 102-103), and the
\* elements the panel has handed to the host's addElement
VARIABLES sortBy, filterRating, design

credVars == <<platform, businessId, email, password, rememberMe>>
viewVars == <<showSettings, transitioning, timers>>
reviewVars == <<reviews, hasFetchedReviews>>
\* the state of the panel but for the review list's controls
panelStateVars == <<credVars, branches, branchId, reviewVars, loading, error, viewVars,
                    store, mount, tasks>>
listVars == <<sortBy, filterRating, design>>
panelVars == <<panelStateVars, listVars>>
vars == <<proxyVars, panelVars>>

(***************************************************************************)
(* JavaScript values.  A string field of a JSON body is a TLA+ string;     *)
(* the marker Undefined stands for a property that is not there.           *)
(***************************************************************************)
Undefined == "<undefined>"

\* JSON payload values are tagged, so that null, arrays and objects compare.
JNull == [t |-> "null"]
JUndef == [t |-> "undefined"]
JArr(s) == [t |-> "array", v |-> s]

\* !x for a string property
FalsyStr(x) == x = Undefined \/ x = ""

\* truthiness of a payload value: arrays and objects are truthy, even empty
TruthyJ(x) == x.t \notin {"null", "undefined"}

\* a || b on payload values
OrJ(a, b) == IF TruthyJ(a) THEN a ELSE b

(***************************************************************************)
(*                     The proxy: src/server/reviews.js                    *)
(***************************************************************************)
MaxReq == 2
ReqIds == 1..MaxReq

FieldValues == {Undefined, "", "v"}

BranchBodies == [businessId : FieldValues, username : FieldValues, password : FieldValues]
ReviewBodies == [businessId : FieldValues, branchId : FieldValues,
                 username : FieldValues, password : FieldValues]

\* what axios.get can end with: a 2xx response carrying data, or a rejection
UpstreamData == {JNull,
                 [t |-> "object", reviews |-> JUndef],
                 [t |-> "object", reviews |-> JNull],
                 [t |-> "object", reviews |-> JArr(<<>>)],
                 [t |-> "object", reviews |-> JArr(<<"r1">>)]}
UpstreamFailures == {"network", "timeout", "401", "404", "503"}

NoResult == [kind |-> "none"]
OkResult(d) == [kind |-> "ok", data |-> d]
FailResult(f) == [kind |-> "fail", why |-> f]

FreeSlot == [st |-> "free", route |-> "none", body |-> <<>>, calls |-> <<>>,
             result |-> NoResult, sent |-> <<>>]

\* res.status(s).json(b)
Respond(r, s, b) == [r EXCEPT !.st = "done", !.sent = Append(@, [status |-> s, body |-> b])]

\* Buffer.from(`${username}:${password}`).toString("base64"): injective on the pair
BasicAuth(u, p) == <<"Basic", u, p>>

BranchUrl(b) == <<"business", b.businessId, "branch">>
ReviewUrl(b) == <<"business", b.businessId, "review", "branchId", b.branchId>>

\* axios.get(url, {headers: {Authorization}}): the call is recorded, the handler awaits
UpstreamGet(r, url, auth) ==
    [r EXCEPT !.st = "await", !.calls = Append(@, [url |-> url, auth |-> auth])]

BranchesMissingNoPassword(b) == FalsyStr(b.businessId) \/ FalsyStr(b.username)

BranchesMissing(b) ==
    FalsyStr(b.businessId) \/ FalsyStr(b.username) \/ FalsyStr(b.password)

ReviewsMissing(b) ==
    FalsyStr(b.businessId) \/ FalsyStr(b.branchId) \/ FalsyStr(b.username) \/ FalsyStr(b.password)

\* app.post("/api/branches"), up to the await
PostBranches(i, b) ==
    /\ reqs[i].st = "free"
    /\ LET r == [FreeSlot EXCEPT !.route = "branches", !.body = b] IN
       reqs' = [reqs EXCEPT ![i] =
                  IF BranchesMissing(b)
                  THEN Respond(r, 400, [error |-> "Missing credentials"])
                  ELSE UpstreamGet(r, BranchUrl(b), BasicAuth(b.username, b.password))]
    /\ UNCHANGED panelVars

\* app.post("/api/reviews"), up to the await
PostReviews(i, b) ==
    /\ reqs[i].st = "free"
    /\ LET r == [FreeSlot EXCEPT !.route = "reviews", !.body = b] IN
       reqs' = [reqs EXCEPT ![i] =
                  IF ReviewsMissing(b)
                  THEN Respond(r, 400, [error |-> "Missing required fields"])
                  ELSE UpstreamGet(r, ReviewUrl(b), BasicAuth(b.username, b.password))]
    /\ UNCHANGED panelVars

\* the rest of the try block of /api/branches: res.json(response.data)
BranchesOk(r, d) == Respond(r, 200, d)

ReviewsOkEnvelope(r, d) == Respond(r, 200, d)

\* the rest of the try block of /api/reviews: res.json(response.data.reviews || []);
\* reading a property of null throws, which the catch turns into the 500
ReviewsOk(r, d) ==
    IF d.t = "object"
    THEN Respond(r, 200, OrJ(d.reviews, JArr(<<>>)))
    ELSE Respond(r, 500, [error |-> "Failed to fetch reviews"])

BranchesCatchPropagates(r) ==
    Respond(r, IF r.result.why \in {"401", "404", "503"} THEN 401 ELSE 500,
            [error |-> "Failed to fetch branches"])

\* the catch blocks
BranchesCatch(r) == Respond(r, 500, [error |-> "Failed to fetch branches"])
ReviewsCatch(r) == Respond(r, 500, [error |-> "Failed to fetch reviews"])

\* the awaited GET resolves with a 2xx response
UpstreamResolve(i, d) ==
    /\ reqs[i].st = "await"
    /\ LET r == [reqs[i] EXCEPT !.result = OkResult(d)] IN
       reqs' = [reqs EXCEPT ![i] =
                  IF r.route = "branches" THEN BranchesOk(r, d) ELSE ReviewsOk(r, d)]
    /\ UNCHANGED panelVars

UpstreamRejectRetries(i, f) ==
    /\ reqs[i].st = "await"
    /\ reqs' = [reqs EXCEPT ![i] =
                  IF Len(@.calls) < 2
                  THEN UpstreamGet(@, @.calls[1].url, @.calls[1].auth)
                  ELSE IF @.route = "branches"
                       THEN BranchesCatch([@ EXCEPT !.result = FailResult(f)])
                       ELSE ReviewsCatch([@ EXCEPT !.result = FailResult(f)])]
    /\ UNCHANGED panelVars

\* the awaited GET rejects: network error, timeout, or a non-2xx status
UpstreamReject(i, f) ==
    /\ reqs[i].st = "await"
    /\ LET r == [reqs[i] EXCEPT !.result = FailResult(f)] IN
       reqs' = [reqs EXCEPT ![i] =
                  IF r.route = "branches" THEN BranchesCatch(r) ELSE ReviewsCatch(r)]
    /\ UNCHANGED panelVars

\* the response has gone out; nothing of the request is kept
Close(i) ==
    /\ reqs[i].st = "done"
    /\ reqs' = [reqs EXCEPT ![i] = FreeSlot]
    /\ UNCHANGED panelVars

NoRequests == [i \in ReqIds |-> FreeSlot]

ProxyNext ==
    \/ \E i \in ReqIds, b \in BranchBodies : PostBranches(i, b)
    \/ \E i \in ReqIds, b \in ReviewBodies : PostReviews(i, b)
    \/ \E i \in ReqIds, d \in UpstreamData : UpstreamResolve(i, d)
    \/ \E i \in ReqIds, f \in UpstreamFailures : UpstreamReject(i, f)
    \/ \E i \in ReqIds : Close(i)

(***************************************************************************)
(*                   The panel: src/src/app.tsx (App)                      *)
(*                                                                         *)
(* Text the user types is a sequence of characters, so that trim,          *)
(* includes and the e-mail pattern are computed on it.                     *)
(***************************************************************************)
SP == " "
TAB == "\t"
AT == "@"
DOT == "."

\* what \s matches and what trim() removes, among the characters used here
Whitespace == {SP, TAB}

RECURSIVE TrimStart(_)
TrimStart(s) == IF s # <<>> /\ Head(s) \in Whitespace THEN TrimStart(Tail(s)) ELSE s

RECURSIVE TrimEnd(_)
TrimEnd(s) ==
    IF s # <<>> /\ s[Len(s)] \in Whitespace THEN TrimEnd(SubSeq(s, 1, Len(s) - 1)) ELSE s

\* String.prototype.trim
Trim(s) == TrimEnd(TrimStart(s))

\* String.prototype.includes, for a one-character needle
Includes(s, ch) == \E i \in 1..Len(s) : s[i] = ch

\* [^\s@]+ matches the whole of s
Plain(s) == s # <<>> /\ \A i \in 1..Len(s) : s[i] \notin Whitespace \cup {AT}

\* /^[^\s@]+@[^\s@]+\.[^\s@]+$/.test(email)
validateEmail(e) ==
    \E i, j \in 1..Len(e) :
        /\ i < j
        /\ e[i] = AT
        /\ e[j] = DOT
        /\ Plain(SubSeq(e, 1, i - 1))
        /\ Plain(SubSeq(e, i + 1, j - 1))
        /\ Plain(SubSeq(e, j + 1, Len(e)))

\* a variant that only asks for something other than whitespace
validateBusinessIdOnlyTrim(id) == Len(Trim(id)) > 0

\* id.trim().length > 0 && !id.includes(' ')
validateBusinessId(id) == Len(Trim(id)) > 0 /\ ~Includes(id, SP)

Platforms == {"phorest", "mindbody", "boulevard"}

\* what the user can type or paste into the three text inputs
BusinessIdInputs == {<<>>, <<"b", "1">>, <<"b", SP, "1">>, <<"b", TAB, "1">>, <<TAB>>}
EmailInputs == {<<>>, <<"u", AT, "d", DOT, "c">>, <<"u", AT, "d">>}
PasswordInputs == {<<>>, <<"p">>, <<"q">>}

(***************************************************************************)
(* Messages of the single error slot; NoError is null.                     *)
(***************************************************************************)
NoError == "<null>"
MsgBusinessId == "Please enter a valid Business ID"
MsgEmail == "Please enter a valid email address"
MsgPassword == "Please enter your password"
MsgCredentials == "Invalid credentials. Please check your Business ID, email, and password."
MsgLocations == "Failed to fetch locations. Please try again."
MsgSession == "Your session has expired. Please re-enter your credentials."
MsgReviews == "Failed to fetch reviews. Please try again."

\* !error
NoErrorShown(e) == e = NoError \/ e = ""

(***************************************************************************)
(* Upstream payloads, as axios hands them over in response.data.           *)
(***************************************************************************)
JStr(s) == [t |-> "string", v |-> s]
JNum(n) == [t |-> "number", v |-> n]
JObj(f) == [t |-> "object", f |-> f]
\* a non-empty string that is a path, kept as its '/'-separated segments
JHref(segs) == [t |-> "href", segs |-> segs]

\* o?.name on a payload value: undefined when o is null or undefined, or has no such field
Get(o, name) ==
    IF o.t = "object" /\ name \in DOMAIN o.f THEN o.f[name] ELSE JUndef

\* location records of the upstream
RawBranchB1 == JObj([branchId |-> JStr("b1"), id |-> JStr("b1"), name |-> JStr("Downtown")])
RawBranchB2 ==
    JObj([_links |-> JObj([self |-> JObj([href |-> JHref(<<"", "branch", "b2">>)])]),
          id |-> JStr("b2"), name |-> JStr("Uptown")])
RawBranchNoId == JObj([name |-> JStr("Nowhere")])

RawBranchLists == {<<RawBranchB1, RawBranchB2>>, <<RawBranchNoId>>}

BranchPayloads ==
    {JNull, JObj(<<>>)}
    \cup {JObj([_embedded |-> JObj([branches |-> JArr(l)])]) : l \in RawBranchLists}
    \cup {JObj([locations |-> JArr(l)]) : l \in RawBranchLists}
    \cup {JObj([data |-> JArr(l)]) : l \in RawBranchLists}

\* href.split('/').pop()
SplitPop(segs) == IF segs = <<>> THEN JUndef ELSE JStr(segs[Len(segs)])

\* truthiness of a payload value that may be a string or a number
Truthy(x) ==
    CASE x.t \in {"null", "undefined"} -> FALSE
      [] x.t = "string" -> x.v # ""
      [] x.t = "number" -> x.v # 0
      [] OTHER -> TRUE

Or(a, b) == IF Truthy(a) THEN a ELSE b

\* a string payload value as the panel keeps it; branch.name may be undefined
Str(x) == IF x.t = "string" THEN x.v ELSE Undefined

\* branchData of fetchBranches: the platform's list, or [] when it is not there
BranchData(p, d) ==
    CASE p = "phorest" -> Or(Get(Get(d, "_embedded"), "branches"), JArr(<<>>))
      [] p = "mindbody" -> Or(Get(d, "locations"), JArr(<<>>))
      [] p = "boulevard" -> Or(Get(d, "data"), JArr(<<>>))
      [] OTHER -> JArr(<<>>)

\* the try block throws a TypeError: response.data._embedded of no object, or
\* .map of something that is no array
BranchesThrow(p, d) ==
    \/ p = "phorest" /\ d.t \in {"null", "undefined"}
    \/ BranchData(p, d).t # "array"

BranchHrefPop(b) ==
    LET href == Get(Get(Get(b, "_links"), "self"), "href") IN
    IF href.t = "href" THEN SplitPop(href.segs) ELSE JUndef

\* one element of mappedBranches
MapBranch(p, b) ==
    CASE p = "phorest" ->
           [id |-> Or(Or(Get(b, "branchId"), BranchHrefPop(b)), JStr("")).v,
            name |-> Str(Get(b, "name"))]
      [] p \in {"mindbody", "boulevard"} ->
           [id |-> Or(Get(b, "id"), JStr("")).v, name |-> Str(Get(b, "name"))]
      [] OTHER -> [id |-> "", name |-> ""]

MapBranches(p, d) ==
    LET l == BranchData(p, d).v IN [i \in 1..Len(l) |-> MapBranch(p, l[i])]

(***************************************************************************)
(* Review payloads and their normalization (fetchReviews).                 *)
(***************************************************************************)
\* new Date().toISOString(): the time of the call
Now == "<now>"

\* a Phorest review already has the panel's shape
RawReviewPhorest ==
    JObj([reviewId |-> JStr("r1"), clientFirstName |-> JStr("Amy"),
          clientLastName |-> JStr("Lee"), rating |-> JNum(5),
          reviewDate |-> JStr("2024-01-01T00:00:00Z"), text |-> JStr("Great!")])

RawReviewOther ==
    JObj([id |-> JStr("r2"),
          customer |-> JObj([firstName |-> JStr("Bo"), lastName |-> JStr("Ray")]),
          comment |-> JStr("Fine"), createdAt |-> JStr("2024-02-02T00:00:00Z"),
          stylist |-> JObj([firstName |-> JStr("Cy"), lastName |-> JStr("Dee")])])

ReviewPayloads ==
    {JNull, JObj(<<>>),
     JObj([_embedded |-> JObj([reviews |-> JArr(<<RawReviewPhorest>>)])]),
     JObj([reviews |-> JArr(<<RawReviewOther>>)]),
     JObj([data |-> JArr(<<RawReviewOther>>)])}

\* reviewData of fetchReviews
ReviewData(p, d) ==
    CASE p = "phorest" -> Or(Get(Get(d, "_embedded"), "reviews"), JArr(<<>>))
      [] p = "mindbody" -> Or(Get(d, "reviews"), JArr(<<>>))
      [] p = "boulevard" -> Or(Get(d, "data"), JArr(<<>>))
      [] OTHER -> JArr(<<>>)

ReviewsThrow(p, d) ==
    \/ p = "phorest" /\ d.t \in {"null", "undefined"}
    \/ ReviewData(p, d).t # "array"

\* a variant that takes every record as it comes
NormalizeReviewPassThrough(p, r) == r

\* one element of normalizedReviews
NormalizeReview(p, r) ==
    IF p \in {"mindbody", "boulevard"}
    THEN JObj([reviewId |-> Get(r, "id"),
               clientFirstName |-> Or(Or(Get(Get(r, "customer"), "firstName"),
                                         Get(Get(r, "client"), "firstName")), JStr("")),
               clientLastName |-> Or(Or(Get(Get(r, "customer"), "lastName"),
                                        Get(Get(r, "client"), "lastName")), JStr("")),
               rating |-> Or(Get(r, "rating"), JNum(5)),
               reviewDate |-> Or(Or(Get(r, "date"), Get(r, "createdAt")), JStr(Now)),
               text |-> Or(Or(Get(r, "text"), Get(r, "comment")), JStr("")),
               staffFirstName |-> Or(Or(Get(Get(r, "staff"), "firstName"),
                                        Get(Get(r, "stylist"), "firstName")), JStr("")),
               staffLastName |-> Or(Or(Get(Get(r, "staff"), "lastName"),
                                       Get(Get(r, "stylist"), "lastName")), JStr(""))])
    ELSE r

NormalizeReviews(p, d) ==
    LET l == ReviewData(p, d).v IN [i \in 1..Len(l) |-> NormalizeReview(p, l[i])]

(***************************************************************************)
(* What a rejected axios.get carries: error.response?.status and           *)
(* error.response?.data?.message.                                          *)
(***************************************************************************)
NoResponse == [response |-> FALSE, status |-> 0, message |-> JUndef]
Failures ==
    {NoResponse}
    \cup [response : {TRUE}, status : {401, 500},
          message : {JUndef, JStr(""), JStr("Service unavailable")}]
\* the try block itself threw: the error has no response
Thrown == NoResponse

\* a variant that never shows what the upstream says
CatchMessageIgnoreUpstream(f, auth, generic) ==
    IF f.response /\ f.status = 401 THEN auth ELSE generic

\* the message the catch block of fetchBranches or fetchReviews sets
CatchMessage(f, auth, generic) ==
    IF f.response /\ f.status = 401
    THEN auth
    ELSE Or(IF f.response THEN f.message ELSE JUndef, JStr(generic)).v

(***************************************************************************)
(* The component.                                                          *)
(***************************************************************************)
MaxTimers == 1

\* what a handler created by the current render sees of the state
Render ==
    [platform |-> platform, businessId |-> businessId, email |-> email,
     password |-> password, rememberMe |-> rememberMe, branchId |-> branchId,
     error |-> error]

\* the first render, whose closure the mount effect keeps
InitialRender ==
    [platform |-> "phorest", businessId |-> <<>>, email |-> <<>>, password |-> <<>>,
     rememberMe |-> FALSE, branchId |-> "", error |-> NoError]

NoEntry == [saved |-> FALSE]
\* the object saveCredentials hands to storage.set
Entry(c) ==
    [saved |-> TRUE, platform |-> c.platform, businessId |-> c.businessId,
     email |-> c.email, password |-> c.password, rememberMe |-> c.rememberMe]

\* a panel is opened with nothing stored, or with what an earlier session stored
InitialStores ==
    {NoEntry,
     Entry([platform |-> "mindbody", businessId |-> <<"b", "1">>,
            email |-> <<"u", AT, "d", DOT, "c">>, password |-> <<"p">>,
            rememberMe |-> TRUE])}

PanelInit ==
    /\ platform = InitialRender.platform
    /\ businessId = InitialRender.businessId
    /\ email = InitialRender.email
    /\ password = InitialRender.password
    /\ rememberMe = InitialRender.rememberMe
    /\ branches = <<>>
    /\ branchId = InitialRender.branchId
    /\ reviews = <<>>
    /\ loading = FALSE
    /\ error = InitialRender.error
    /\ showSettings = TRUE
    /\ transitioning = FALSE
    /\ hasFetchedReviews = FALSE
    /\ store \in InitialStores
    /\ mount = "loading"
    /\ tasks = <<>>
    /\ timers = <<>>
    /\ sortBy = "newest"
    /\ filterRating = 5
    /\ design = <<>>

RemoveAt(s, i) == SubSeq(s, 1, i - 1) \o SubSeq(s, i + 1, Len(s))

\* getApiConfig and the request axios.get is given
ApiConfig(p) == IF p \in Platforms THEN p ELSE "phorest"
AuthFormat(p, e) == IF ApiConfig(p) = "phorest" THEN <<"global/">> \o e ELSE e
BranchesRequest(c) ==
    [api |-> ApiConfig(c.platform), path |-> <<c.businessId, "branch">>,
     username |-> AuthFormat(c.platform, c.email), password |-> c.password]
ReviewsRequest(c) ==
    [api |-> ApiConfig(c.platform), path |-> <<c.businessId, c.branchId, "review">>,
     page |-> 0, size |-> 20,
     username |-> AuthFormat(c.platform, c.email), password |-> c.password]

\* handleViewTransition: setTransitioning(true), and the rest after a second
handleViewTransition(newView) ==
    /\ transitioning' = TRUE
    /\ timers' = Append(timers, newView)

\* the callback of setTimeout
TimerFire ==
    /\ timers # <<>>
    /\ showSettings' = Head(timers)
    /\ transitioning' = FALSE
    /\ timers' = Tail(timers)
    /\ UNCHANGED <<credVars, branches, branchId, reviewVars, loading, error, store,
                   mount, tasks>>
    /\ UNCHANGED <<proxyVars, listVars>>

\* the rest of the onClick of Fetch Locations, once fetchBranches has returned:
\* if (!error) handleViewTransition(false), with the error of the click's render
AfterFetchBranches(c, origin) ==
    IF origin = "click" /\ NoErrorShown(c.error)
    THEN handleViewTransition(FALSE)
    ELSE UNCHANGED <<transitioning, timers>>

\* a variant that looks at the e-mail address first
ValidationErrorEmailFirst(c) ==
    IF ~validateEmail(c.email) THEN MsgEmail
    ELSE IF ~validateBusinessId(c.businessId) THEN MsgBusinessId
    ELSE IF c.password = <<>> THEN MsgPassword
    ELSE NoError

\* the three checks at the head of fetchBranches, in their order
ValidationError(c) ==
    IF ~validateBusinessId(c.businessId) THEN MsgBusinessId
    ELSE IF ~validateEmail(c.email) THEN MsgEmail
    ELSE IF c.password = <<>> THEN MsgPassword
    ELSE NoError

\* fetchBranches up to its await, called from the closure c
fetchBranches(c, origin) ==
    IF ValidationError(c) # NoError
    THEN /\ error' = ValidationError(c)
         /\ UNCHANGED <<loading, tasks>>
         /\ AfterFetchBranches(c, origin)
    ELSE /\ loading' = TRUE
         /\ error' = NoError
         /\ tasks' = Append(tasks, [kind |-> "branches", origin |-> origin, c |-> c,
                                    request |-> BranchesRequest(c)])
         /\ UNCHANGED <<transitioning, timers>>

\* the mount effect: storage.get has answered (ok), or has failed
loadSavedCredentials(ok) ==
    /\ mount = "loading"
    /\ mount' = "done"
    /\ IF ok /\ store.saved
       THEN /\ platform' = store.platform
            /\ businessId' = store.businessId
            /\ email' = store.email
            /\ password' = store.password
            /\ rememberMe' = store.rememberMe
            /\ IF store.rememberMe
               THEN fetchBranches(InitialRender, "mount")
               ELSE UNCHANGED <<loading, error, tasks, transitioning, timers>>
       ELSE UNCHANGED <<credVars, loading, error, tasks, transitioning, timers>>
    /\ UNCHANGED <<branches, branchId, reviewVars, showSettings, store>>
    /\ UNCHANGED <<proxyVars, listVars>>

\* a variant that keeps the password out of the store
saveCredentialsNoPassword(c, ok) ==
    IF ~ok THEN store
    ELSE IF c.rememberMe THEN Entry([c EXCEPT !.password = <<>>]) ELSE NoEntry

\* saveCredentials of the closure c: the store after storage.set / storage.remove
\* has answered (ok), or has failed, which is ignored
saveCredentials(c, ok) ==
    IF ~ok THEN store ELSE IF c.rememberMe THEN Entry(c) ELSE NoEntry

(***************************************************************************)
(* Settings view.                                                          *)
(***************************************************************************)
SelectPlatform(p) ==
    /\ showSettings /\ ~loading
    /\ platform' = p
    /\ UNCHANGED <<businessId, email, password, rememberMe, branches, branchId,
                   reviewVars, loading, error, viewVars, store, mount, tasks>>
    /\ UNCHANGED <<proxyVars, listVars>>

EditBusinessId(v) ==
    /\ showSettings /\ ~loading
    /\ businessId' = v
    /\ UNCHANGED <<platform, email, password, rememberMe, branches, branchId,
                   reviewVars, loading, error, viewVars, store, mount, tasks>>
    /\ UNCHANGED <<proxyVars, listVars>>

EditEmail(v) ==
    /\ showSettings /\ ~loading
    /\ email' = v
    /\ UNCHANGED <<platform, businessId, password, rememberMe, branches, branchId,
                   reviewVars, loading, error, viewVars, store, mount, tasks>>
    /\ UNCHANGED <<proxyVars, listVars>>

\* the password input and the checkbox have no disabled property
EditPassword(v) ==
    /\ showSettings
    /\ password' = v
    /\ UNCHANGED <<platform, businessId, email, rememberMe, branches, branchId,
                   reviewVars, loading, error, viewVars, store, mount, tasks>>
    /\ UNCHANGED <<proxyVars, listVars>>

ToggleRememberMe(b) ==
    /\ showSettings
    /\ rememberMe' = b
    /\ UNCHANGED <<platform, businessId, email, password, branches, branchId,
                   reviewVars, loading, error, viewVars, store, mount, tasks>>
    /\ UNCHANGED <<proxyVars, listVars>>

\* onClick of Fetch Locations
ClickFetchLocations ==
    /\ showSettings
    /\ ~(loading \/ businessId = <<>> \/ email = <<>> \/ password = <<>>)
    /\ Len(timers) < MaxTimers
    /\ fetchBranches(Render, "click")
    /\ UNCHANGED <<credVars, branches, branchId, reviewVars, showSettings, store, mount>>
    /\ UNCHANGED <<proxyVars, listVars>>

\* the awaited axios.get of fetchBranches resolves with data d
BranchesResolve(i, d) ==
    /\ i \in 1..Len(tasks) /\ tasks[i].kind = "branches"
    /\ LET t == tasks[i] IN
       IF BranchesThrow(t.c.platform, d)
       THEN /\ error' = CatchMessage(Thrown, MsgCredentials, MsgLocations)
            /\ loading' = FALSE
            /\ tasks' = RemoveAt(tasks, i)
            /\ AfterFetchBranches(t.c, t.origin)
            /\ UNCHANGED <<branches, showSettings>>
       ELSE /\ branches' = MapBranches(t.c.platform, d)
            /\ tasks' = [tasks EXCEPT ![i].kind = "saving"]
            /\ UNCHANGED <<error, loading, viewVars>>
    /\ UNCHANGED <<credVars, branchId, reviewVars, store, mount>>
    /\ UNCHANGED <<proxyVars, listVars>>

\* a variant without the finally block
BranchesRejectKeepLoading(i, f) ==
    /\ i \in 1..Len(tasks) /\ tasks[i].kind = "branches"
    /\ error' = CatchMessage(f, MsgCredentials, MsgLocations)
    /\ tasks' = RemoveAt(tasks, i)
    /\ AfterFetchBranches(tasks[i].c, tasks[i].origin)
    /\ UNCHANGED <<credVars, branches, branchId, reviewVars, loading, showSettings,
                   store, mount>>
    /\ UNCHANGED <<proxyVars, listVars>>

\* the awaited axios.get of fetchBranches rejects with f
BranchesReject(i, f) ==
    /\ i \in 1..Len(tasks) /\ tasks[i].kind = "branches"
    /\ error' = CatchMessage(f, MsgCredentials, MsgLocations)
    /\ loading' = FALSE
    /\ tasks' = RemoveAt(tasks, i)
    /\ AfterFetchBranches(tasks[i].c, tasks[i].origin)
    /\ UNCHANGED <<credVars, branches, branchId, reviewVars, showSettings, store, mount>>
    /\ UNCHANGED <<proxyVars, listVars>>

\* the awaited saveCredentials returns; then the finally block and the click's rest
StorageDone(i, ok) ==
    /\ i \in 1..Len(tasks) /\ tasks[i].kind = "saving"
    /\ store' = saveCredentials(tasks[i].c, ok)
    /\ loading' = FALSE
    /\ tasks' = RemoveAt(tasks, i)
    /\ AfterFetchBranches(tasks[i].c, tasks[i].origin)
    /\ UNCHANGED <<credVars, branches, branchId, reviewVars, error, showSettings, mount>>
    /\ UNCHANGED <<proxyVars, listVars>>

(***************************************************************************)
(* Main view.                                                              *)
(***************************************************************************)
\* onClick of Connection Settings
ClickSettings ==
    /\ ~showSettings /\ ~loading
    /\ Len(timers) < MaxTimers
    /\ handleViewTransition(TRUE)
    /\ UNCHANGED <<credVars, branches, branchId, reviewVars, loading, error,
                   showSettings, store, mount, tasks>>
    /\ UNCHANGED <<proxyVars, listVars>>

\* onChange of the location Select: setBranchId(value || ''), value an option's
SelectBranch(v) ==
    /\ ~showSettings /\ ~loading
    /\ \E i \in 1..Len(branches) : branches[i].id = v
    /\ branchId' = v
    /\ UNCHANGED <<credVars, branches, reviewVars, loading, error, viewVars, store,
                   mount, tasks>>
    /\ UNCHANGED <<proxyVars, listVars>>

\* fetchReviews up to its await, called from the closure c
fetchReviews(c) ==
    /\ loading' = TRUE
    /\ error' = NoError
    /\ tasks' = Append(tasks, [kind |-> "reviews", origin |-> "click", c |-> c,
                               request |-> ReviewsRequest(c)])

\* onClick of Fetch Reviews
ClickFetchReviews ==
    /\ ~showSettings
    /\ ~(loading \/ branchId = "")
    /\ fetchReviews(Render)
    /\ UNCHANGED <<credVars, branches, branchId, reviewVars, viewVars, store, mount>>
    /\ UNCHANGED <<proxyVars, listVars>>

\* the awaited axios.get of fetchReviews resolves with data d
ReviewsResolve(i, d) ==
    /\ i \in 1..Len(tasks) /\ tasks[i].kind = "reviews"
    /\ LET t == tasks[i] IN
       IF ReviewsThrow(t.c.platform, d)
       THEN /\ error' = CatchMessage(Thrown, MsgSession, MsgReviews)
            /\ UNCHANGED reviewVars
       ELSE /\ reviews' = NormalizeReviews(t.c.platform, d)
            /\ hasFetchedReviews' = TRUE
            /\ UNCHANGED error
    /\ loading' = FALSE
    /\ tasks' = RemoveAt(tasks, i)
    /\ UNCHANGED <<credVars, branches, branchId, viewVars, store, mount>>
    /\ UNCHANGED <<proxyVars, listVars>>

\* a variant that drops the list when the request fails
ReviewsRejectClears(i, f) ==
    /\ i \in 1..Len(tasks) /\ tasks[i].kind = "reviews"
    /\ error' = CatchMessage(f, MsgSession, MsgReviews)
    /\ reviews' = <<>>
    /\ hasFetchedReviews' = FALSE
    /\ loading' = FALSE
    /\ tasks' = RemoveAt(tasks, i)
    /\ UNCHANGED <<credVars, branches, branchId, viewVars, store, mount>>
    /\ UNCHANGED <<proxyVars, listVars>>

\* the awaited axios.get of fetchReviews rejects with f
ReviewsReject(i, f) ==
    /\ i \in 1..Len(tasks) /\ tasks[i].kind = "reviews"
    /\ error' = CatchMessage(f, MsgSession, MsgReviews)
    /\ loading' = FALSE
    /\ tasks' = RemoveAt(tasks, i)
    /\ UNCHANGED <<credVars, branches, branchId, reviewVars, viewVars, store, mount>>
    /\ UNCHANGED <<proxyVars, listVars>>

(***************************************************************************)
(* The review list: the sort/filter view and the insertion of a review     *)
(* into the design (app.tsx 337-367, 403-414, 540-636).                    *)
(***************************************************************************)
MaxInserted == 1

\* the value of Date.prototype.getTime: a number of days here, or NaN
Time(n) == [nan |-> FALSE, v |-> n]
NaN == [nan |-> TRUE, v |-> 0]

Date1 == "2024-01-01T00:00:00Z"
Date2 == "2024-02-02T00:00:00Z"

\* new Date(x).getTime() for the values of reviewDate that occur: an ISO string gives
\* its time, null gives the epoch, undefined and any other string give NaN
GetTime(x) ==
    CASE x.t = "string" /\ x.v = Date1 -> Time(1)
      [] x.t = "string" /\ x.v = Date2 -> Time(2)
      [] x.t = "string" /\ x.v = Now -> Time(3)
      [] x.t = "null" -> Time(0)
      [] OTHER -> NaN

\* a - b on two times
Minus(a, b) == IF a.nan \/ b.nan THEN NaN ELSE Time(a.v - b.v)

\* the comparator handed to sort
CompareFn(sb, a, b) ==
    LET ta == GetTime(Get(a, "reviewDate"))
        tb == GetTime(Get(b, "reviewDate")) IN
    CASE sb = "newest" -> Minus(tb, ta)
      [] sb = "oldest" -> Minus(ta, tb)
      [] OTHER -> Time(0)

\* SortCompare of Array.prototype.sort: a NaN from the comparator counts as +0
SortCompare(sb, a, b) ==
    LET c == CompareFn(sb, a, b) IN IF c.nan THEN 0 ELSE c.v

\* the comparator is a consistent comparison function for the elements of l
\* (ECMAScript, Array.prototype.sort)
ConsistentOn(l, sb) ==
    \A i, j, k \in 1..Len(l) :
        /\ SortCompare(sb, l[i], l[j]) = 0 /\ SortCompare(sb, l[j], l[k]) = 0
               => SortCompare(sb, l[i], l[k]) = 0
        /\ SortCompare(sb, l[i], l[j]) = 0 /\ SortCompare(sb, l[j], l[k]) < 0
               => SortCompare(sb, l[i], l[k]) < 0
        /\ SortCompare(sb, l[i], l[j]) < 0 /\ SortCompare(sb, l[j], l[k]) = 0
               => SortCompare(sb, l[i], l[k]) < 0

\* x put into the sorted s, behind everything it does not come before
RECURSIVE InsertSorted(_, _, _)
InsertSorted(sb, x, s) ==
    IF s = <<>> THEN <<x>>
    ELSE IF SortCompare(sb, x, Head(s)) < 0 THEN <<x>> \o s
    ELSE <<Head(s)>> \o InsertSorted(sb, x, Tail(s))

\* the stable sort of l
RECURSIVE StableSort(_, _)
StableSort(sb, l) ==
    IF l = <<>> THEN <<>>
    ELSE InsertSorted(sb, l[Len(l)], StableSort(sb, SubSeq(l, 1, Len(l) - 1)))

Reorderings(l) == {[i \in 1..Len(l) |-> l[p[i]]] : p \in Permutations(1..Len(l))}

\* what Array.prototype.sort may leave: the stable order when the comparator is
\* consistent, and an order that is up to the engine when it is not
SortResults(sb, l) ==
    IF ConsistentOn(l, sb) THEN {StableSort(sb, l)} ELSE Reorderings(l)

\* reviews.filter(review => filterRating === 0 || review.rating === filterRating)
FilterReviews(l, fr) ==
    SelectSeq(l, LAMBDA r : fr = 0 \/ Get(r, "rating") = JNum(fr))

\* the lists getSortedAndFilteredReviews() can return in the current render
getSortedAndFilteredReviews == SortResults(sortBy, FilterReviews(reviews, filterRating))

\* the star glyph, one UTF-16 unit like U+2B50
Star == "*"

RECURSIVE Repeat(_, _)
Repeat(s, n) == IF n <= 0 THEN "" ELSE s \o Repeat(s, n - 1)

\* a variant that always shows five stars
StarsAlwaysFive(rating) == Repeat(Star, 5)

\* "⭐".repeat(review.rating): undefined counts as 0
Stars(rating) == IF rating.t = "number" THEN Repeat(Star, rating.v) ELSE ""

RECURSIVE Join(_, _)
Join(lines, sep) ==
    IF lines = <<>> THEN ""
    ELSE IF Len(lines) = 1 THEN lines[1]
    ELSE lines[1] \o sep \o Join(Tail(lines), sep)

\* reviewText of insertReview
ReviewText(review) ==
    LET first == Get(review, "clientFirstName")
        last == Get(review, "clientLastName")
        clientName == IF Truthy(first) /\ Truthy(last)
                      THEN first.v \o " " \o last.v
                      ELSE "Anonymous Client"
        message == Or(Get(review, "text"), JStr("No message provided")).v
    IN Join(<<"CLIENT REVIEW", "", "\"" \o message \o "\"", "", Stars(Get(review, "rating")),
              "", clientName>>, "\n")

\* the element insertReview hands to addElement
insertReview(review) ==
    [type |-> "text", children |-> <<ReviewText(review)>>, fontSize |-> 72,
     textAlign |-> "center", color |-> "#000000"]

\* onChange of the sort Select: setSortBy(value || 'newest')
SelectSortBy(v) ==
    /\ ~showSettings /\ ~loading /\ reviews # <<>>
    /\ sortBy' = v
    /\ UNCHANGED <<filterRating, design>>
    /\ UNCHANGED <<panelStateVars, proxyVars>>

\* onChange of the rating Select: setFilterRating(parseInt(value || '0', 10))
SelectFilterRating(r) ==
    /\ ~showSettings /\ ~loading /\ reviews # <<>>
    /\ filterRating' = r
    /\ UNCHANGED <<sortBy, design>>
    /\ UNCHANGED <<panelStateVars, proxyVars>>

\* onClick of Insert Review on the card of a review of the rendered list
ClickInsertReview(review) ==
    /\ ~showSettings /\ ~loading /\ reviews # <<>>
    /\ \E l \in getSortedAndFilteredReviews : \E k \in 1..Len(l) : l[k] = review
    /\ Len(design) < MaxInserted
    /\ design' = Append(design, insertReview(review))
    /\ UNCHANGED <<sortBy, filterRating>>
    /\ UNCHANGED <<panelStateVars, proxyVars>>

\* the steps of the panel, the user's and the upstream's inputs drawn from the
\* given sets
PanelNextOver(plats, bids, emails, pws, bpay, rpay, fails) ==
    \/ \E ok \in BOOLEAN : loadSavedCredentials(ok)
    \/ \E p \in plats : SelectPlatform(p)
    \/ \E v \in bids : EditBusinessId(v)
    \/ \E v \in emails : EditEmail(v)
    \/ \E v \in pws : EditPassword(v)
    \/ \E b \in BOOLEAN : ToggleRememberMe(b)
    \/ ClickFetchLocations
    \/ \E i \in 1..Len(tasks), d \in bpay : BranchesResolve(i, d)
    \/ \E i \in 1..Len(tasks), f \in fails : BranchesReject(i, f)
    \/ \E i \in 1..Len(tasks), ok \in BOOLEAN : StorageDone(i, ok)
    \/ ClickSettings
    \/ \E v \in {"", "b1", "b2"} : SelectBranch(v)
    \/ ClickFetchReviews
    \/ \E i \in 1..Len(tasks), d \in rpay : ReviewsResolve(i, d)
    \/ \E i \in 1..Len(tasks), f \in fails : ReviewsReject(i, f)
    \/ TimerFire

(***************************************************************************)
(* The two programs run apart: each specification leaves the other's       *)
(* state where it starts.                                                  *)
(***************************************************************************)
PanelIdle == PanelInit /\ store = NoEntry

\* the server has just started and no panel is using it
ProxyInit == reqs = NoRequests /\ PanelIdle

Init == reqs = NoRequests /\ PanelInit

\* a user who types a business id with or without a space, one e-mail address and
\* one password, and switches between two of the platforms
Next ==
    PanelNextOver({"phorest", "mindbody"}, {<<"b", "1">>, <<"b", SP, "1">>},
                  {<<"u", AT, "d", DOT, "c">>}, {<<"p">>},
                  BranchPayloads, ReviewPayloads, Failures)

Spec == Init /\ [][Next]_vars

SpecProxy == ProxyInit /\ [][ProxyNext]_vars

\* a user who fills the form in with whatever can be typed or pasted, against an
\* upstream that answers with one list of locations or refuses the credentials
NextForm ==
    PanelNextOver({"mindbody"}, BusinessIdInputs, EmailInputs, {<<>>, <<"p">>},
                  {JObj([locations |-> JArr(<<RawBranchB1, RawBranchB2>>)])},
                  {JObj([reviews |-> JArr(<<RawReviewOther>>)])},
                  {[response |-> TRUE, status |-> 401, message |-> JUndef]})

SpecForm == Init /\ [][NextForm]_vars

\* what the upstream does in the runs checked for progress
FairBranchPayloads == {JNull, JObj([locations |-> JArr(<<RawBranchB1, RawBranchB2>>)])}
FairReviewPayloads == {JNull, JObj([reviews |-> JArr(<<RawReviewOther>>)])}
FairFailures ==
    {NoResponse, [response |-> TRUE, status |-> 401, message |-> JUndef],
     [response |-> TRUE, status |-> 500, message |-> JStr("Service unavailable")]}

\* a user with one set of credentials
NextFair ==
    PanelNextOver({"mindbody"}, {<<"b", "1">>}, {<<"u", AT, "d", DOT, "c">>}, {<<"p">>},
                  FairBranchPayloads, FairReviewPayloads, FairFailures)

\* an awaited promise of fetchBranches or fetchReviews settles
Settle ==
    \E i \in 1..Len(tasks) :
        \/ \E d \in FairBranchPayloads : BranchesResolve(i, d)
        \/ \E f \in FairFailures : BranchesReject(i, f)
        \/ \E ok \in BOOLEAN : StorageDone(i, ok)
        \/ \E d \in FairReviewPayloads : ReviewsResolve(i, d)
        \/ \E f \in FairFailures : ReviewsReject(i, f)

\* every promise the panel awaits settles, and every timer set goes off
Fairness ==
    /\ WF_vars(\E ok \in BOOLEAN : loadSavedCredentials(ok))
    /\ WF_vars(Settle)
    /\ WF_vars(TimerFire)

FairSpec == Init /\ [][NextFair]_vars /\ Fairness

(***************************************************************************)
(* The review list at work: an upstream that answers with several reviews. *)
(***************************************************************************)
\* Phorest reviews; the second has neither a last name, nor a date, nor a text
PhorestReview1 ==
    JObj([reviewId |-> JStr("r1"), clientFirstName |-> JStr("Amy"),
          clientLastName |-> JStr("Lee"), rating |-> JNum(5),
          reviewDate |-> JStr(Date1), text |-> JStr("Great!")])
PhorestReview2 ==
    JObj([reviewId |-> JStr("r2"), clientFirstName |-> JStr("Bo"), rating |-> JNum(4),
          text |-> JStr("")])
PhorestReview3 ==
    JObj([reviewId |-> JStr("r3"), clientFirstName |-> JStr("Cy"),
          clientLastName |-> JStr("Dee"), rating |-> JNum(5),
          reviewDate |-> JStr(Date2), text |-> JStr("Fine")])

\* Mindbody/Boulevard records, with the one and with the other name of each field
OtherReview1 ==
    JObj([id |-> JStr("m1"),
          customer |-> JObj([firstName |-> JStr("Di"), lastName |-> JStr("Eck")]),
          client |-> JObj([firstName |-> JStr("Lu"), lastName |-> JStr("Moe")]),
          rating |-> JNum(3), date |-> JStr(Date2), createdAt |-> JStr(Date1),
          text |-> JStr("Good"), comment |-> JStr("Bad"),
          staff |-> JObj([firstName |-> JStr("Flo"), lastName |-> JStr("Gee")]),
          stylist |-> JObj([firstName |-> JStr("Ned"), lastName |-> JStr("Orr")])])
OtherReview2 ==
    JObj([id |-> JStr("m2"),
          client |-> JObj([firstName |-> JStr("Hal"), lastName |-> JStr("Ives")]),
          createdAt |-> JStr(Date1), comment |-> JStr("Okay"),
          stylist |-> JObj([firstName |-> JStr("Jo"), lastName |-> JStr("Kay")])])
OtherReview3 == JObj([id |-> JStr("m3"), rating |-> JNum(0), date |-> JStr("soon")])

ListReviewPayloads ==
    {JObj([_embedded |-> JObj([reviews |->
               JArr(<<PhorestReview1, PhorestReview2, PhorestReview3>>)])]),
     JObj([reviews |-> JArr(<<OtherReview1, OtherReview2, OtherReview3>>)])}

\* a user with one set of credentials who fetches reviews, sorts and filters them
\* and inserts one into the design
NextList ==
    \/ PanelNextOver({"phorest", "mindbody"}, {<<"b", "1">>}, {<<"u", AT, "d", DOT, "c">>},
                     {<<"p">>},
                     {JObj([_embedded |-> JObj([branches |-> JArr(<<RawBranchB1>>)]),
                            locations |-> JArr(<<RawBranchB1>>)])},
                     ListReviewPayloads, {NoResponse})
    \/ \E v \in {"newest", "oldest"} : SelectSortBy(v)
    \/ \E r \in {0, 4, 5} : SelectFilterRating(r)
    \/ \E d \in ListReviewPayloads, p \in Platforms :
           \E k \in 1..Len(NormalizeReviews(p, d)) :
               ClickInsertReview(NormalizeReviews(p, d)[k])

SpecList == Init /\ [][NextList]_vars

(***************************************************************************)
(*                         The proxy's contract                            *)
(***************************************************************************)
Handled == {i \in ReqIds : reqs[i].st # "free"}

RequiredFields(route) ==
    IF route = "branches" THEN {"businessId", "username", "password"}
    ELSE {"businessId", "branchId", "username", "password"}

\* a required field of the request's body is missing or empty
Incomplete(r) == \E k \in RequiredFields(r.route) : r.body[k] \in {Undefined, ""}

ErrorBodies == {[error |-> m] : m \in {"Missing credentials", "Missing required fields",
                                       "Failed to fetch branches", "Failed to fetch reviews"}}

\* C1: a request with a required field missing or empty is answered 400 with an
\* error body, and no upstream call is made for it.
C1_MissingFieldIs400 ==
    \A i \in Handled :
        Incomplete(reqs[i]) =>
            /\ reqs[i].st = "done"
            /\ Len(reqs[i].sent) = 1
            /\ reqs[i].sent[1].status = 400
            /\ reqs[i].sent[1].body \in ErrorBodies
            /\ reqs[i].calls = <<>>

C1_Witness ==
    \E i \in Handled :
        /\ reqs[i].route = "branches"
        /\ reqs[i].body = [businessId |-> "v", username |-> "v", password |-> Undefined]
        /\ reqs[i].sent = <<[status |-> 400, body |-> [error |-> "Missing credentials"]]>>

GenericError(route) ==
    IF route = "branches" THEN [error |-> "Failed to fetch branches"]
    ELSE [error |-> "Failed to fetch reviews"]

\* C2: a complete request whose upstream GET fails, in whatever way, is answered 500
\* with the route's fixed error body; no response has a status other than 200, 400
\* or 500.
C2_UpstreamFailureIs500 ==
    \A i \in Handled :
        /\ reqs[i].result.kind = "fail" =>
               reqs[i].sent = <<[status |-> 500, body |-> GenericError(reqs[i].route)]>>
        /\ \A k \in 1..Len(reqs[i].sent) : reqs[i].sent[k].status \in {200, 400, 500}

C2_Witness ==
    \E i \in Handled :
        /\ reqs[i].route = "branches"
        /\ reqs[i].result = FailResult("401")
        /\ reqs[i].sent[1].status = 500

\* C3: on a 2xx upstream response /api/branches answers with the upstream body as it
\* is; /api/reviews, the upstream body being an object, answers with the array in its
\* reviews field, or with [] when there is none (the field is missing or null), and
\* never with the object itself.
C3_SuccessPayload ==
    \A i \in Handled :
        reqs[i].result.kind = "ok" =>
            LET d == reqs[i].result.data IN
            /\ reqs[i].route = "branches" =>
                   reqs[i].sent = <<[status |-> 200, body |-> d]>>
            /\ reqs[i].route = "reviews" /\ d.t = "object" =>
                   /\ reqs[i].sent =
                          <<[status |-> 200,
                             body |-> IF d.reviews.t = "array" THEN d.reviews ELSE JArr(<<>>)]>>
                   /\ reqs[i].sent[1].body # d

C3_Witness ==
    /\ \E i \in Handled :
           /\ reqs[i].route = "reviews"
           /\ reqs[i].result = OkResult([t |-> "object", reviews |-> JArr(<<"r1">>)])
           /\ reqs[i].sent[1].body = JArr(<<"r1">>)
    /\ \E i \in Handled :
           /\ reqs[i].route = "reviews"
           /\ reqs[i].result = OkResult([t |-> "object", reviews |-> JUndef])
           /\ reqs[i].sent[1].body = JArr(<<>>)

\* C4: a complete request causes exactly one upstream GET, an incomplete one none;
\* a request that has been handled has exactly one response, one still awaiting the
\* upstream has none; and two requests with the same route, body and upstream result
\* have the same response.
C4_OneCallOneResponse ==
    /\ \A i \in Handled :
           /\ Len(reqs[i].calls) = IF Incomplete(reqs[i]) THEN 0 ELSE 1
           /\ Len(reqs[i].sent) = IF reqs[i].st = "done" THEN 1 ELSE 0
    /\ \A i, j \in Handled :
           /\ reqs[i].st = "done" /\ reqs[j].st = "done"
           /\ reqs[i].route = reqs[j].route
           /\ reqs[i].body = reqs[j].body
           /\ reqs[i].result = reqs[j].result
           => reqs[i].sent = reqs[j].sent

C4_Witness ==
    \E i, j \in Handled :
        /\ i # j
        /\ reqs[i].st = "done" /\ reqs[i].result.kind = "fail" /\ Len(reqs[i].calls) = 1
        /\ reqs[j].st = "done" /\ reqs[j].result.kind = "ok" /\ Len(reqs[j].calls) = 1

(***************************************************************************)
(*                         The panel's contract                            *)
(***************************************************************************)
\* which of the three fields a closure's values fail on, in the order they are checked
FailingFields(c) ==
    <<~validateBusinessId(c.businessId), ~validateEmail(c.email), c.password = <<>>>>

FieldMessage == <<MsgBusinessId, MsgEmail, MsgPassword>>

Rejected(c) == \E k \in 1..3 : FailingFields(c)[k]

FirstMessage(c) ==
    FieldMessage[CHOOSE k \in 1..3 :
                     FailingFields(c)[k] /\ \A j \in 1..(k - 1) : ~FailingFields(c)[j]]

FormValues ==
    {[InitialRender EXCEPT !.businessId = b, !.email = e, !.password = p] :
         b \in BusinessIdInputs, e \in EmailInputs, p \in PasswordInputs}

\* C5: whatever is in the three fields, the checks of fetchBranches yield the message
\* of the first field that fails, business id before e-mail before password; and a
\* call of fetchBranches with a failing field, from the button or from the mount
\* effect, sets that message and leaves the loading flag, the pending requests, the
\* branch list and the stored credentials as they are.
C5_ValidationFailure ==
    /\ \A c \in FormValues :
           ValidationError(c) = IF Rejected(c) THEN FirstMessage(c) ELSE NoError
    /\ [][/\ ClickFetchLocations /\ Rejected(Render) =>
                 /\ error' = FirstMessage(Render)
                 /\ UNCHANGED <<loading, tasks, branches, store>>
          /\ loadSavedCredentials(TRUE) /\ store.saved /\ store.rememberMe =>
                 /\ error' = FirstMessage(InitialRender)
                 /\ UNCHANGED <<loading, tasks, branches, store>>]_vars

C5_Witness ==
    /\ validateBusinessId(businessId)
    /\ ~validateEmail(email)
    /\ password # <<>>
    /\ error = MsgEmail
    /\ ~loading
    /\ tasks = <<>>
    /\ store = NoEntry

\* the id has nothing but whitespace in it (it may be empty)
Blank(id) == \A k \in 1..Len(id) : id[k] \in Whitespace
HasSpace(id) == \E k \in 1..Len(id) : id[k] = SP
HasWhitespace(id) == \E k \in 1..Len(id) : id[k] \in Whitespace

C7_SwitchClearsReviews ==
    [][branchId' # branchId => reviews' = <<>> /\ ~hasFetchedReviews']_vars

\* the message a failure f is to end in: the operation's own for a 401, else what the
\* upstream says if it says anything, else the operation's generic one
Expected(f, auth, generic) ==
    IF f.response /\ f.status = 401 THEN auth
    ELSE IF f.response /\ f.message.t = "string" /\ f.message.v # "" THEN f.message.v
    ELSE generic

\* C8: a failed fetchBranches leaves the invalid-credentials message for a 401, a
\* failed fetchReviews the session-expired message; any other failure leaves the
\* upstream's message if there is one (a missing or empty one is none) and otherwise
\* the generic message of the operation, which is also what a response the panel
\* cannot read ends in; the error slot then holds that one message.
C8_ErrorMapping ==
    [][\A i \in 1..Len(tasks) :
           /\ \A f \in Failures :
                  /\ BranchesReject(i, f) =>
                         error' = Expected(f, MsgCredentials, MsgLocations)
                  /\ ReviewsReject(i, f) =>
                         error' = Expected(f, MsgSession, MsgReviews)
           /\ \A d \in BranchPayloads :
                  BranchesResolve(i, d) /\ BranchesThrow(tasks[i].c.platform, d) =>
                      error' = MsgLocations
           /\ \A d \in ReviewPayloads :
                  ReviewsResolve(i, d) /\ ReviewsThrow(tasks[i].c.platform, d) =>
                      error' = MsgReviews]_vars

C8_Witness ==
    /\ error = "Service unavailable"
    /\ ~loading
    /\ tasks = <<>>
    /\ ~showSettings

\* a request of fetchBranches or fetchReviews is in flight
Pending == \E i \in 1..Len(tasks) : tasks[i].kind \in {"branches", "reviews"}

\* C9: loading is true as long as a request of fetchBranches or fetchReviews is in
\* flight, and whenever one is in flight the panel comes back to loading false,
\* whether the request succeeds or fails.
C9_LoadingFlag == [](Pending => loading) /\ (Pending ~> ~loading)

C9_Witness ==
    /\ error = MsgCredentials
    /\ ~loading
    /\ tasks = <<>>
    /\ showSettings

\* C10: at the end of a successful fetchBranches, the storage having answered, the
\* error is null and the store holds credentials if remember-me is enabled and
\* nothing if it is disabled.
C10_SuccessEffects ==
    [][\A i \in 1..Len(tasks) :
           StorageDone(i, TRUE) /\ mount = "done" =>
               /\ error' = NoError
               /\ IF rememberMe' THEN store'.saved ELSE store' = NoEntry]_vars

\* the requests of fetchReviews that are in flight
ReviewRequests == {i \in 1..Len(tasks) : tasks[i].kind = "reviews"}

\* C11: the review list and the has-fetched flag change only in the step in which
\* a review request is answered with a list the panel can read, and then the list
\* becomes the normalized reviews of that answer, whatever it held, and the flag
\* true; a review request that is rejected, or answered with something the panel
\* cannot read, leaves both as they are; and Fetch Reviews starts exactly one
\* request, for page 0 with size 20.
C11_ReviewListUpdates ==
    [][/\ reviewVars' # reviewVars =>
              \E i \in ReviewRequests, d \in ReviewPayloads :
                  /\ ReviewsResolve(i, d)
                  /\ reviews' = NormalizeReviews(tasks[i].c.platform, d)
                  /\ hasFetchedReviews'
       /\ \A i \in ReviewRequests :
              /\ \A f \in Failures : ReviewsReject(i, f) => UNCHANGED reviewVars
              /\ \A d \in ReviewPayloads :
                     ReviewsResolve(i, d) /\ ReviewsThrow(tasks[i].c.platform, d) =>
                         UNCHANGED reviewVars
       /\ ClickFetchReviews =>
              /\ Len(tasks') = Len(tasks) + 1
              /\ tasks'[Len(tasks')].kind = "reviews"
              /\ tasks'[Len(tasks')].request.page = 0
              /\ tasks'[Len(tasks')].request.size = 20
              /\ UNCHANGED reviewVars]_vars

C11_Witness ==
    /\ reviews # <<>>
    /\ hasFetchedReviews
    /\ error = MsgSession
    /\ ~loading
    /\ tasks = <<>>

\* the reviews of the list l with rating r, in the order of l
WithRating(l, r) == SelectSeq(l, LAMBDA x : Get(x, "rating") = JNum(r))

\* C12: the view leaves the stored list alone; with filter 0 it holds every stored
\* review and with filter r in 1..5 exactly those rated r; and a list the view has
\* sorted by newest stays as it is when sorted by newest again.
C12_ViewIsPureAndIdempotent ==
    /\ \A l \in SortResults(sortBy, FilterReviews(reviews, 0)) : l \in Reorderings(reviews)
    /\ \A r \in 1..5 :
           \A l \in SortResults(sortBy, FilterReviews(reviews, r)) :
               l \in Reorderings(WithRating(reviews, r))
    /\ \A l \in SortResults("newest", FilterReviews(reviews, filterRating)) :
           SortResults("newest", l) = {l}

\* a string with at least one character in it
NonEmpty(x) == x.t = "string" /\ x.v # ""

ExpectedBody(r) ==
    IF NonEmpty(Get(r, "text")) THEN Get(r, "text").v ELSE "No message provided"

ExpectedName(r) ==
    IF NonEmpty(Get(r, "clientFirstName")) /\ NonEmpty(Get(r, "clientLastName"))
    THEN Get(r, "clientFirstName").v \o " " \o Get(r, "clientLastName").v
    ELSE "Anonymous Client"

\* s is made of n star glyphs
OnlyStars(s, n) == Len(s) = n /\ s = Repeat(Star, n)

\* C13: the design changes only by Insert Review on a review the list shows, which
\* hands the host one more element, a text element with one child: the lines
\* CLIENT REVIEW, empty, the body in quotes, empty, as many stars as the rating, empty,
\* the client's name; the body is the placeholder when the text is empty, the name
\* `first last` when both parts are there and the anonymous placeholder otherwise;
\* and nothing else of the panel changes.
C13_InsertedText ==
    [][design' # design =>
           \E k \in 1..Len(reviews) :
               LET r == reviews[k] IN
               /\ filterRating = 0 \/ Get(r, "rating") = JNum(filterRating)
               /\ Len(design') = Len(design) + 1
               /\ SubSeq(design', 1, Len(design)) = design
               /\ LET el == design'[Len(design')] IN
                  /\ el.type = "text"
                  /\ Len(el.children) = 1
                  /\ \E stars \in {Repeat(Star, n) : n \in 0..5} :
                         /\ OnlyStars(stars, Get(r, "rating").v)
                         /\ el.children[1] =
                                "CLIENT REVIEW\n\n\"" \o ExpectedBody(r) \o "\"\n\n"
                                \o stars \o "\n\n" \o ExpectedName(r)
               /\ UNCHANGED <<panelStateVars, sortBy, filterRating>>]_vars

C13_Witness ==
    /\ Len(design) = 1
    /\ design[1].children =
           <<"CLIENT REVIEW\n\n\"No message provided\"\n\n****\n\nAnonymous Client">>
    /\ reviews # <<>>

\* the upstream gave a value for the field: not undefined, null, "" or 0
Present(x) == x.t \notin {"undefined", "null"} /\ x # JStr("") /\ x # JNum(0)

FirstPresent(a, b, default) == IF Present(a) THEN a ELSE IF Present(b) THEN b ELSE default

\* the records of the answer d, where the platform p keeps them
UpstreamReviews(p, d) ==
    LET field == CASE p = "phorest" -> Get(Get(d, "_embedded"), "reviews")
                   [] p = "mindbody" -> Get(d, "reviews")
                   [] OTHER -> Get(d, "data")
    IN IF field.t = "array" THEN field.v ELSE <<>>

\* n is what the upstream record u of platform p is to become
NormalizedFrom(p, u, n) ==
    IF p = "phorest" THEN n = u
    ELSE /\ Get(n, "reviewId") = Get(u, "id")
         /\ Get(n, "clientFirstName") =
                FirstPresent(Get(Get(u, "customer"), "firstName"),
                             Get(Get(u, "client"), "firstName"), JStr(""))
         /\ Get(n, "clientLastName") =
                FirstPresent(Get(Get(u, "customer"), "lastName"),
                             Get(Get(u, "client"), "lastName"), JStr(""))
         /\ Get(n, "text") = FirstPresent(Get(u, "text"), Get(u, "comment"), JStr(""))
         /\ Get(n, "reviewDate") =
                FirstPresent(Get(u, "date"), Get(u, "createdAt"), JStr(Now))
         /\ Get(n, "staffFirstName") =
                FirstPresent(Get(Get(u, "staff"), "firstName"),
                             Get(Get(u, "stylist"), "firstName"), JStr(""))
         /\ Get(n, "staffLastName") =
                FirstPresent(Get(Get(u, "staff"), "lastName"),
                             Get(Get(u, "stylist"), "lastName"), JStr(""))
         /\ Get(n, "rating") = IF Present(Get(u, "rating")) THEN Get(u, "rating") ELSE JNum(5)
         /\ Get(n, "rating").t = "number" /\ Get(n, "rating").v \in 1..5

C15_SerializedByLoading ==
    [][/\ Len(tasks') <= 1
       /\ Pending /\ mount = "done" =>
              /\ Len(tasks') <= Len(tasks)
              /\ UNCHANGED <<platform, businessId, email, password, branchId>>]_vars

\* saveCredentials of a branch fetch is awaited
Saving == \E i \in 1..Len(tasks) : tasks[i].kind = "saving"

\* the entry e holds the credentials the request rq was made with
MadeWith(e, rq) ==
    /\ e.saved
    /\ e.platform = rq.api
    /\ e.businessId = rq.path[1]
    /\ AuthFormat(e.platform, e.email) = rq.username
    /\ e.password = rq.password
    /\ e.rememberMe

\* C16: the store is read once, when the panel starts; its entry changes only in
\* the step that ends a branch fetch whose request was answered and read (the
\* branch list set, no error set), and becomes either nothing or the credentials
\* that request was made with; every other step (a validation failure, a failed
\* branch fetch, a review fetch, an edit of a field or of the checkbox) leaves it.
C16_StoreAccess ==
    [][/\ mount' # mount => mount = "loading" /\ mount' = "done"
       /\ mount = "done" => mount' = "done"
       /\ Saving' /\ ~Saving =>
              \E i \in 1..Len(tasks), d \in BranchPayloads :
                  /\ tasks[i].kind = "branches"
                  /\ BranchesResolve(i, d)
                  /\ branches' = MapBranches(tasks[i].c.platform, d)
                  /\ error' = error
                  /\ store' = store
       /\ store' # store =>
              \E i \in 1..Len(tasks) :
                  /\ tasks[i].kind = "saving"
                  /\ tasks' = RemoveAt(tasks, i)
                  /\ store' = NoEntry \/ MadeWith(store', tasks[i].request)]_vars

C16_Witness ==
    /\ store.saved
    /\ store.platform = "phorest"
    /\ store.businessId = <<"b", "1">>
    /\ tasks = <<>>
    /\ ~loading

\* C17: every branch in the branch list has a non-empty id.
C17_BranchIdsNonEmpty == \A k \in 1..Len(branches) : branches[k].id # ""

\* the stored entry would pass the checks of fetchBranches
ValidEntry(e) == validateBusinessId(e.businessId) /\ validateEmail(e.email) /\ e.password # <<>>

\* C18: when the store answers with an entry whose rememberMe is true, the panel
\* takes platform, business id, e-mail address, password and remember-me from it
\* and, the entry being valid, starts one branch request made with them; when
\* there is no entry, no request is started.
C18_AutoFetchAtStart ==
    [][/\ loadSavedCredentials(TRUE) /\ store.saved /\ store.rememberMe =>
              /\ platform' = store.platform
              /\ businessId' = store.businessId
              /\ email' = store.email
              /\ password' = store.password
              /\ rememberMe' = store.rememberMe
              /\ ValidEntry(store) =>
                     /\ Len(tasks') = Len(tasks) + 1
                     /\ tasks'[Len(tasks')].kind = "branches"
                     /\ MadeWith(store, tasks'[Len(tasks')].request)
       /\ loadSavedCredentials(TRUE) /\ ~store.saved => UNCHANGED tasks]_vars

\* C19: a change to the main view is set off after Fetch Locations only by a step
\* that ends the branch fetch without an error.
C19_TransitionOnlyOnSuccess ==
    [][Len(timers') > Len(timers) /\ timers'[Len(timers')] = FALSE =>
           error' = NoError]_vars
=============================================================================
